---------------------------- MODULE Spec2Model ----------------------------
(***************************************************************************)
(* A model of the FAT12 reader of src/fat12fs.c: mount/unmount, the packed *)
(* 12-bit FAT decode, the root directory search and the two FAT chain      *)
(* walks (fat12fsVerifyEOF, fat12fsReadData).                              *)
(*                                                                         *)
(* Conventions.                                                            *)
(*  - Bytes are naturals 0..255, characters are their ASCII codes.         *)
(*  - The host is little-endian: bcopy of two disk bytes into a short      *)
(*    yields lo + 256*hi.                                                   *)
(*  - fs_fatdata and fs_rootdirentry hold the leading part of the buffers  *)
(*    read at mount; the rest of each buffer is zero on the modelled       *)
(*    images (FatByte, DirEntry).                                          *)
(*  - A crash of the process (SIGSEGV, abort) is pc = "aborted".           *)
(***************************************************************************)
EXTENDS Integers, Sequences, FiniteSets, TLC

VARIABLES
    pc,               \* position of the caller: which call ran last / runs now
    bootblock,        \* the boot block of the image handed to the last mount
    fs,               \* struct fat12fs: the geometry fields
    fs_fatdata,       \* fs->fs_fatdata: the FAT buffer (leading bytes)
    fs_rootdirentry,  \* fs->fs_rootdirentry: the directory entries (leading ones)
    heap,             \* the live malloc() allocations
    openFds,          \* number of descriptors open()ed and not close()d
    mounts,           \* number of fat12fsMount calls so far
    arg,              \* the arguments of the current / last call
    ret,              \* the value returned by the last call
    loc               \* the locals of the running chain walk

vars == <<pc, bootblock, fs, fs_fatdata, fs_rootdirentry, heap, openFds,
          mounts, arg, ret, loc>>

(***************************************************************************)
(* Program constants.                                                      *)
(***************************************************************************)
FS_BLKSIZE == 512
DIRENTRY_SIZE == 32
FAT_BOOTBLOCK == 0
FAT12_MAXSIZE == 4086
FAT_MAXDIR == (25 * FS_BLKSIZE) \div DIRENTRY_SIZE
FAT_DIRPERBLK == FS_BLKSIZE \div DIRENTRY_SIZE
FAT12_EOF1 == 4088
FAT12_EOFF == 4095
FAT12_FREE == 0
NAME0_EMPTY == 0
NAME0_DELETED == 229
ATTR_VOLUME == 8

(***************************************************************************)
(* Bounds of the model.                                                    *)
(***************************************************************************)
MaxMounts == 1        \* mount calls in one run
NumDataBlocks == 2    \* data blocks of the image of the chain walks
MaxNameLen == 2       \* characters of a filename's name part
FatBytes == 3         \* leading bytes of the FAT buffer that vary (FAT decode)
DirPrefix == 2        \* leading directory entries that vary (search)

Min(a, b) == IF a < b THEN a ELSE b

NoArg == [op |-> "none", filename |-> <<>>, index |-> 0, startpos |-> 0,
          nBytesToCopy |-> 0, bad |-> {}, openOk |-> TRUE]

NoLoc == [curblock |-> 0, bytesRemainInFile |-> 0, bytesRead |-> 0,
          startpos |-> 0, reading |-> 0, buffer |-> <<>>, loaded |-> <<>>,
          lookups |-> {}, iters |-> 0, entry |-> 0]

(***************************************************************************)
(* Boot block and mount.                                                   *)
(***************************************************************************)
NullFs == [fs_fatblock |-> 0, fs_fatsectors |-> 0, fs_fatsize |-> 0,
           fs_numfats |-> 0, fs_rootdirblock |-> 0, fs_rootdirsize |-> 0,
           fs_datablock0 |-> 0, fs_fssize |-> 0]

\* The type of fs->fs_fssize: a 32-bit unsigned count, kept as its two
\* 16-bit halves (2^32 is beyond TLC's integers), so that a total
\* smaller than the data-region origin wraps to a count near 2^32.
FsSizeT(x) == [hi |-> (x \div 65536) % 65536, lo |-> x % 65536]

\* fat12fsRawDiskRead fails on a block the device cannot seek to or read.
fat12fsRawDiskRead(bad, blknum) == IF blknum \in bad THEN -1 ELSE 0

\* The sector count of the boot block: the 16-bit field, or the 32-bit one.
TotalSectors(bb) ==
    IF bb.bb_total_sectors = 0 THEN bb.bb_total_sectors_big
                               ELSE bb.bb_total_sectors

RootDirBlock(bb) ==
    bb.bb_reserved_sectors + bb.bb_num_fats * bb.bb_sectors_per_fat

DataBlock0(bb) ==
    RootDirBlock(bb) + (bb.bb_root_dir_entries * DIRENTRY_SIZE) \div FS_BLKSIZE

NotFat12NoZeroCheck(fssize) == fssize.hi > 0 \/ fssize.lo > FAT12_MAXSIZE

\* if (fs->fs_fssize == 0 || fs->fs_fssize > FAT12_MAXSIZE)
NotFat12(fssize) ==
    \/ (fssize.hi = 0 /\ fssize.lo = 0)
    \/ (fssize.hi > 0 \/ fssize.lo > FAT12_MAXSIZE)

\* The result of fat12fsLoadBootBlock: the status and the geometry it leaves.
fat12fsLoadBootBlock(bb, bad) ==
    LET fatsize0 == (bb.bb_sectors_per_fat * FS_BLKSIZE * 2) \div 3
        fssize   == FsSizeT(TotalSectors(bb) - DataBlock0(bb))
    IN  IF fat12fsRawDiskRead(bad, FAT_BOOTBLOCK) < 0
          THEN [status |-> -1, fs |-> NullFs]
        ELSE IF bb.bb_bytes_per_sector # FS_BLKSIZE
                \/ bb.bb_sectors_per_block # 1
          THEN [status |-> -1, fs |-> NullFs]
        ELSE IF bb.bb_root_dir_entries > FAT_MAXDIR
          THEN [status |-> -1, fs |-> NullFs]
        ELSE IF NotFat12(fssize)
          THEN [status |-> -1, fs |-> NullFs]
        ELSE [status |-> 0,
              fs |-> [fs_fatblock     |-> bb.bb_reserved_sectors,
                      fs_fatsectors   |-> bb.bb_sectors_per_fat,
                      fs_fatsize      |-> Min(fssize.lo + 2, fatsize0),
                      fs_numfats      |-> bb.bb_num_fats,
                      fs_rootdirblock |-> RootDirBlock(bb),
                      fs_rootdirsize  |-> bb.bb_root_dir_entries,
                      fs_datablock0   |-> DataBlock0(bb),
                      fs_fssize       |-> fssize.lo + 2]]

\* fat12fsDeleteFSData: free fs_fatdata, fs_rootdirentry and fs.  The
\* descriptor fs->fs_fd is not touched.
fat12fsDeleteFSData(h) == h \ {"fs", "fs_fatdata", "fs_rootdirentry"}

\* Boot blocks of the images handed to mount (the decoded fields): the
\* layouts of a 1-sector and of a 9-sector FAT, each with sector counts
\* around its data-region origin (17, 33) and around origin + 4086.
BootBlockFields ==
    [bb_bytes_per_sector  : {512, 1024},
     bb_sectors_per_block : {1, 2},
     bb_reserved_sectors  : {1},
     bb_num_fats          : {2},
     bb_root_dir_entries  : {224, 416},
     bb_total_sectors     : {0, 16, 17, 33, 4103, 4104, 4119, 4120},
     bb_sectors_per_fat   : {1, 9},
     bb_total_sectors_big : {0, 2880, 70000}]

\* At most one of the layout fields is off.
BootBlocks ==
    {bb \in BootBlockFields :
        Cardinality({f \in {"bps", "spb", "dir"} :
            \/ (f = "bps" /\ bb.bb_bytes_per_sector # 512)
            \/ (f = "spb" /\ bb.bb_sectors_per_block # 1)
            \/ (f = "dir" /\ bb.bb_root_dir_entries # 224)}) <= 1}

\* Sets of physical blocks the device fails to read.
BadBlockSets == {{}, {0}, {1}, {3}, {19}}

\* Some FAT block, or some root directory block, cannot be read.
FatReadFails(g, bad) ==
    \E i \in 0 .. g.fs_fatsectors - 1 :
        fat12fsRawDiskRead(bad, g.fs_fatblock + i) < 0

RootdirReadFails(g, bad) ==
    \E i \in 0 .. (g.fs_rootdirsize \div FAT_DIRPERBLK) - 1 :
        fat12fsRawDiskRead(bad, g.fs_rootdirblock + i) < 0

\* fat12fsMount(filename): the whole call, on an image with boot block bb
\* and unreadable blocks bad; openOk says whether open() succeeds.
fat12fsMount(bb, bad, openOk) ==
    /\ pc \in {"unmounted", "mount_failed"}
    /\ mounts < MaxMounts
    /\ mounts' = mounts + 1
    /\ bootblock' = bb
    /\ arg' = [NoArg EXCEPT !.op = "mount", !.bad = bad, !.openOk = openOk]
    /\ UNCHANGED <<fs_fatdata, fs_rootdirentry, ret, loc>>
    /\ IF ~openOk
         THEN /\ pc' = "mount_failed"
              /\ UNCHANGED <<fs, heap, openFds>>
         ELSE LET boot == fat12fsLoadBootBlock(bb, bad)
                  h1   == heap \cup {"fs"}
                  h2   == h1 \cup {"fs_fatdata"}
                  h3   == h2 \cup {"fs_rootdirentry"}
              IN  /\ openFds' = openFds + 1
                  /\ IF boot.status < 0
                       THEN /\ heap' = fat12fsDeleteFSData(h1)
                            /\ fs' = NullFs
                            /\ pc' = "mount_failed"
                     ELSE IF FatReadFails(boot.fs, bad)
                       THEN /\ heap' = fat12fsDeleteFSData(h2)
                            /\ fs' = NullFs
                            /\ pc' = "mount_failed"
                     ELSE IF RootdirReadFails(boot.fs, bad)
                       THEN /\ heap' = fat12fsDeleteFSData(h3)
                            /\ fs' = NullFs
                            /\ pc' = "mount_failed"
                     ELSE /\ heap' = h3
                          /\ fs' = boot.fs
                          /\ pc' = "mounted"

\* fat12fsUmount(fs)
fat12fsUmount ==
    /\ pc = "mounted"
    /\ heap' = fat12fsDeleteFSData(heap)
    /\ fs' = NullFs
    /\ pc' = "unmounted"
    /\ arg' = [NoArg EXCEPT !.op = "umount"]
    /\ UNCHANGED <<bootblock, fs_fatdata, fs_rootdirentry, openFds, mounts,
                   ret, loc>>

NoBootBlock ==
    [bb_bytes_per_sector |-> 0, bb_sectors_per_block |-> 0,
     bb_reserved_sectors |-> 0, bb_num_fats |-> 0, bb_root_dir_entries |-> 0,
     bb_total_sectors |-> 0, bb_sectors_per_fat |-> 0,
     bb_total_sectors_big |-> 0]

InitMount ==
    /\ pc = "unmounted"
    /\ bootblock = NoBootBlock
    /\ fs = NullFs
    /\ fs_fatdata = <<>>
    /\ fs_rootdirentry = <<>>
    /\ heap = {}
    /\ openFds = 0
    /\ mounts = 0
    /\ arg = NoArg
    /\ ret = 0
    /\ loc = NoLoc

MountCall ==
    \E bb \in BootBlocks, bad \in BadBlockSets, openOk \in BOOLEAN :
        fat12fsMount(bb, bad, openOk)

NextMount == MountCall \/ fat12fsUmount

SpecMount == InitMount /\ [][NextMount]_vars

(***************************************************************************)
(* Mount and unmount: the properties.                                      *)
(***************************************************************************)

\* The usable data-block count of a boot block, as the integer it is meant
\* to be: total sectors minus data-region origin.
UsableCount(bb) ==
    (IF bb.bb_total_sectors # 0 THEN bb.bb_total_sectors
                                ELSE bb.bb_total_sectors_big)
    - (bb.bb_reserved_sectors + bb.bb_num_fats * bb.bb_sectors_per_fat
       + (bb.bb_root_dir_entries * 32) \div 512)

C7_AllReleasedAndClosed ==
    pc \in {"unmounted", "mount_failed"} => (heap = {} /\ openFds = 0)

(***************************************************************************)
(* The FAT table.                                                          *)
(***************************************************************************)

\* The size in bytes of the buffer malloc()ed for the FAT.
FatBufSize == FS_BLKSIZE * fs.fs_fatsectors

\* Byte o of fs->fs_fatdata, for o inside the buffer.
FatByte(o) == IF o < Len(fs_fatdata) THEN fs_fatdata[o + 1] ELSE 0

\* Both bytes that the lookup of index reads lie inside the buffer.
InFatBuffer(index) == index >= 0 /\ (index * 3) \div 2 + 1 < FatBufSize

GetFatEntryNoShift(index) ==
    LET i   == (index * 3) \div 2
        val == FatByte(i) + 256 * FatByte(i + 1)
    IN  val % 4096

\* fat12fsGetFatEntry(fs, index), for an index whose bytes are in the buffer:
\* val is the little-endian short at byte (index * 3) / 2, shifted right by
\* 4 for an odd index, masked with 0xfff.
fat12fsGetFatEntry(index) ==
    LET i       == (index * 3) \div 2
        val     == FatByte(i) + 256 * FatByte(i + 1)
        shifted == IF index % 2 = 1 THEN val \div 16 ELSE val
    IN  shifted % 4096

\* The values a lookup past the end of the buffer may yield (it reads
\* whatever lies there): a free entry, a block number, an end-of-file marker.
OutOfBufferValues == {FAT12_FREE, 2, FAT12_EOFF}

\* A mounted image of 360 sectors with a 1-sector FAT: 341 FAT entries.
FatBoot ==
    [bb_bytes_per_sector |-> 512, bb_sectors_per_block |-> 1,
     bb_reserved_sectors |-> 1, bb_num_fats |-> 2,
     bb_root_dir_entries |-> 224, bb_total_sectors |-> 360,
     bb_sectors_per_fat |-> 1, bb_total_sectors_big |-> 0]

ByteSamples == {0, 18, 52, 86, 255}

InitFat ==
    /\ pc = "mounted"
    /\ bootblock = FatBoot
    /\ fs = fat12fsLoadBootBlock(FatBoot, {}).fs
    /\ fs_fatdata \in [1 .. FatBytes -> ByteSamples]
    /\ fs_rootdirentry = <<>>
    /\ heap = {"fs", "fs_fatdata", "fs_rootdirentry"}
    /\ openFds = 1
    /\ mounts = 1
    /\ arg = NoArg
    /\ ret = 0
    /\ loc = NoLoc

\* A caller (fat12fsDumpFat) looks up one entry of the table.
GetFatEntryCall ==
    /\ pc = "mounted"
    /\ \E index \in 0 .. fs.fs_fatsize - 1 :
          /\ arg' = [NoArg EXCEPT !.op = "get", !.index = index]
          /\ ret' = fat12fsGetFatEntry(index)
    /\ pc' = "fat_got"
    /\ UNCHANGED <<bootblock, fs, fs_fatdata, fs_rootdirentry, heap, openFds,
                   mounts, loc>>

NextFat == GetFatEntryCall

SpecFat == InitFat /\ [][NextFat]_vars

\* C6: for every FAT buffer b and index i below the entry count, get(i) is
\* in 0..0xFFF and is the packed 12-bit entry: with o = (3*i) div 2 it is
\* b[o] + 256*(b[o+1] mod 16) for even i, (b[o] div 16) + 16*b[o+1] for odd
\* i; for the bytes 0x12,0x34,0x56, get(0) = 0x412 and get(1) = 0x563.
C6_GetIsPacked12Bit ==
    pc = "fat_got" =>
        LET i  == arg.index
            o  == (3 * i) \div 2
            b0 == IF o + 1 <= Len(fs_fatdata) THEN fs_fatdata[o + 1] ELSE 0
            b1 == IF o + 2 <= Len(fs_fatdata) THEN fs_fatdata[o + 2] ELSE 0
        IN  /\ ret \in 0 .. 4095
            /\ i % 2 = 0 => ret = b0 + 256 * (b1 % 16)
            /\ i % 2 = 1 => ret = (b0 \div 16) + 16 * b1
            /\ (SubSeq(fs_fatdata, 1, 3) = <<18, 52, 86>> /\ i = 0)
                   => ret = 1042
            /\ (SubSeq(fs_fatdata, 1, 3) = <<18, 52, 86>> /\ i = 1)
                   => ret = 1379

\* C6 witness: entry 1 of a table starting 0x12,0x34,0x56 was looked up.
C6_Witness ==
    /\ pc = "fat_got"
    /\ SubSeq(fs_fatdata, 1, 3) = <<18, 52, 86>>
    /\ arg.index = 1
    /\ ret = 1379

(***************************************************************************)
(* The root directory.                                                     *)
(***************************************************************************)

ZeroEntry ==
    [de_name |-> <<0, 0, 0, 0, 0, 0, 0, 0>>, de_nameext |-> <<0, 0, 0>>,
     de_attributes |-> 0, de_fileblock0 |-> 0, de_filelen |-> 0]

\* fs->fs_rootdirentry[i], for i below fs_rootdirsize.
DirEntry(i) ==
    IF i < Len(fs_rootdirentry) THEN fs_rootdirentry[i + 1] ELSE ZeroEntry

\* attributes & ATTR_VOLUME
HasVolumeBit(attributes) == (attributes \div ATTR_VOLUME) % 2 = 1

\* The classification of a directory entry, as fat12fsDumpRootdir labels it.
Classify(e) ==
    IF e.de_name[1] = NAME0_EMPTY THEN "EMPTY"
    ELSE IF e.de_name[1] = NAME0_DELETED THEN "DELETED"
    ELSE IF HasVolumeBit(e.de_attributes) THEN "VOLUME_LABEL"
    ELSE "FILE"

\* The position of the first '.' of a filename (strchr), 0 when it has none.
DotPos(filename) ==
    IF \E k \in 1 .. Len(filename) : filename[k] = 46
      THEN CHOOSE k \in 1 .. Len(filename) :
             /\ filename[k] = 46
             /\ \A m \in 1 .. k - 1 : filename[m] # 46
      ELSE 0

toupper(c) == IF c \in 97 .. 122 THEN c - 32 ELSE c

\* The upper-cased copy of the characters before the '.'.
UpperName(filename) ==
    [j \in 1 .. DotPos(filename) - 1 |-> toupper(filename[j])]

\* fname[j] for fname = de_name: past the 8 name bytes lie the extension.
FName(e, j) == IF j < 8 THEN e.de_name[j + 1] ELSE e.de_nameext[j - 7]

\* The comparison loop of the search: correct stays 1.
NameMatches(e, name) ==
    \A j \in 0 .. Len(name) - 1 : FName(e, j) = name[j + 1]

\* The entry is skipped: the first byte of de_nameext is '\0'.
SkipsEntry(e) == e.de_nameext[1] = 0

\* The directory loop of the search from entry i on: the first entry not
\* skipped whose name matches, or -1.
RECURSIVE SearchFrom(_, _)
SearchFrom(name, i) ==
    IF i >= fs.fs_rootdirsize THEN -1
    ELSE IF SkipsEntry(DirEntry(i)) THEN SearchFrom(name, i + 1)
    ELSE IF NameMatches(DirEntry(i), name) THEN i
    ELSE SearchFrom(name, i + 1)

\* The ways fat12fsSearchRootdir(fs, filename) ends.  Without a '.' strchr
\* returns NULL, malloc of the wrapped size fails, and strncpy writes through
\* NULL: the process dies.  With a '.', name[per - filename] = '\0' and the
\* strcpy into ext write one byte past their allocations: the search goes on
\* when the byte lands in the allocator's slack, and the process is aborted
\* when the build checks the heap.
fat12fsSearchRootdir(filename) ==
    IF DotPos(filename) = 0
      THEN {[aborted |-> TRUE, index |-> -1]}
      ELSE {[aborted |-> FALSE, index |-> SearchFrom(UpperName(filename), 0)],
            [aborted |-> TRUE, index |-> -1]}

\* A mounted image with a root directory of 16 entries (one block).
DirBoot ==
    [bb_bytes_per_sector |-> 512, bb_sectors_per_block |-> 1,
     bb_reserved_sectors |-> 1, bb_num_fats |-> 2,
     bb_root_dir_entries |-> 16, bb_total_sectors |-> 360,
     bb_sectors_per_fat |-> 1, bb_total_sectors_big |-> 0]

Pad8(s) == s \o [j \in 1 .. 8 - Len(s) |-> 32]

\* Directory entries: names A, AB, B, a deleted ?A, an unused slot with a
\* stale name; extensions TXT, blank, zero; archive or volume-label bit.
EntryPool ==
    {[de_name |-> n, de_nameext |-> x, de_attributes |-> a,
      de_fileblock0 |-> 2, de_filelen |-> 100] :
        n \in {Pad8(<<65>>), Pad8(<<65, 66>>), Pad8(<<66>>),
               Pad8(<<229, 65>>), Pad8(<<0, 65>>)},
        x \in {<<84, 88, 84>>, <<32, 32, 32>>, <<0, 0, 0>>},
        a \in {32, 8}}

RECURSIVE SeqsUpTo(_, _)
\* The sequences over chars of length at most n.
SeqsUpTo(chars, n) ==
    IF n = 0 THEN {<<>>}
    ELSE LET shorter == SeqsUpTo(chars, n - 1)
         IN  shorter \cup {Append(t, c) : t \in shorter, c \in chars}

\* Filenames: a name part over a, B of at most MaxNameLen characters, alone
\* or followed by '.', '.t' or '.t.t'.
Filenames ==
    LET names == SeqsUpTo({97, 66}, MaxNameLen)
    IN  (names \ {<<>>})
        \cup {n \o x : n \in names,
                        x \in {<<46>>, <<46, 116>>, <<46, 116, 46, 116>>}}

InitSearch ==
    /\ pc = "mounted"
    /\ bootblock = DirBoot
    /\ fs = fat12fsLoadBootBlock(DirBoot, {}).fs
    /\ fs_fatdata = <<>>
    /\ fs_rootdirentry \in [1 .. DirPrefix -> EntryPool]
    /\ heap = {"fs", "fs_fatdata", "fs_rootdirentry"}
    /\ openFds = 1
    /\ mounts = 1
    /\ arg = NoArg
    /\ ret = 0
    /\ loc = NoLoc

\* A caller runs fat12fsSearchRootdir(fs, filename).
SearchRootdirCall ==
    /\ pc = "mounted"
    /\ \E dotted \in BOOLEAN :
         \E filename \in {f \in Filenames : (DotPos(f) # 0) = dotted} :
           \E out \in fat12fsSearchRootdir(filename) :
              /\ arg' = [NoArg EXCEPT !.op = "search", !.filename = filename]
              /\ ret' = out.index
              /\ pc' = IF out.aborted THEN "aborted" ELSE "searched"
    /\ UNCHANGED <<bootblock, fs, fs_fatdata, fs_rootdirentry, heap, openFds,
                   mounts, loc>>

NextSearch == SearchRootdirCall

SpecSearch == InitSearch /\ [][NextSearch]_vars

\* A filename has a '.' separator.
HasDot(filename) == \E k \in 1 .. Len(filename) : filename[k] = 46

\* The characters of a filename before its first '.', upper-cased.
NamePartUpper(filename) ==
    LET d == CHOOSE k \in 1 .. Len(filename) :
                 filename[k] = 46 /\ \A m \in 1 .. k - 1 : filename[m] # 46
    IN  [j \in 1 .. d - 1 |->
            IF filename[j] \in 97 .. 122 THEN filename[j] - 32
                                         ELSE filename[j]]

\* Entry i is a FILE entry whose name begins with the given characters.
IsFileNamed(i, name) ==
    /\ Classify(DirEntry(i)) = "FILE"
    /\ \A j \in 1 .. Len(name) : DirEntry(i).de_name[j] = name[j]

\* C1: for every root directory and every filename with a '.', an index
\* that search returns is not that of a DELETED, EMPTY or VOLUME_LABEL
\* entry: it is the lowest index of a FILE entry whose name begins with
\* the upper-cased name part of the filename.
C1_SearchReturnsLowestFile ==
    (pc = "searched" /\ HasDot(arg.filename) /\ ret >= 0) =>
        /\ Classify(DirEntry(ret)) \notin {"DELETED", "EMPTY", "VOLUME_LABEL"}
        /\ IsFileNamed(ret, NamePartUpper(arg.filename))
        /\ \A i \in 0 .. ret - 1 :
              ~IsFileNamed(i, NamePartUpper(arg.filename))

\* C8: a search for a filename without '.' ends with the error result
\* InvalidFilename, and one for a filename with a '.' that matches no
\* eligible entry with NotFound (-1): in both cases it returns an error
\* value, not an entry index and not an aborted run.
C8_SearchErrorResults ==
    /\ (arg.op = "search" /\ ~HasDot(arg.filename))
          => (pc = "searched" /\ ret < 0)
    /\ (arg.op = "search" /\ HasDot(arg.filename)
        /\ \A i \in 0 .. fs.fs_rootdirsize - 1 :
              ~IsFileNamed(i, NamePartUpper(arg.filename)))
          => (pc = "searched" /\ ret = -1)

(***************************************************************************)
(* The chain walks: fat12fsVerifyEOF and fat12fsReadData.                  *)
(*                                                                         *)
(* The output buffer is kept as the list of its segments <<L, cnt>>: the   *)
(* first cnt bytes of the block buffer temp after fat12fsLoadDataBlock(fs, *)
(* temp, L).  Byte off of logical block L is identified by <<L, off>>      *)
(* (the data bytes of the image are pairwise distinct); for an L outside   *)
(* the image the read delivers nothing and <<L, off>> stands for the       *)
(* uninitialised byte off of temp.                                         *)
(***************************************************************************)

\* curblock >= FAT12_EOF1 && curblock <= FAT12_EOFF
IsEOF(v) == v >= FAT12_EOF1 /\ v <= FAT12_EOFF

\* (curblock & FAT12_EOF1) == FAT12_EOF1, for a 16-bit curblock
MaskIsEOF(v) == ((v \div 8) % 512) * 8 = FAT12_EOF1

DecrementByBytesThisBlock(remain) == remain - Min(remain, FS_BLKSIZE)

\* bytesRemainInFile -= FS_BLKSIZE
Decrement(remain) == remain - FS_BLKSIZE

\* The values fat12fsGetFatEntry(fs, index) may return: the entry, or for
\* bytes outside the buffer whatever the read past its end finds.
LookupValues(index) ==
    IF InFatBuffer(index) THEN {fat12fsGetFatEntry(index)}
                          ELSE OutOfBufferValues

\* The bytes the copy loop of fat12fsReadData takes from one block: it
\* runs over bytesThisBlock bytes and breaks at bytesRead >= nBytesToCopy.
CopyLoop(bytesThisBlock, bytesRead, nBytesToCopy) ==
    IF bytesRead >= nBytesToCopy THEN 0
    ELSE Min(bytesThisBlock, nBytesToCopy - bytesRead)

RECURSIVE Pack(_)
\* The packed FAT bytes of a sequence of 12-bit entries: two entries in
\* three bytes.
Pack(es) ==
    IF es = <<>> THEN <<>>
    ELSE IF Len(es) = 1 THEN <<es[1] % 256, es[1] \div 256>>
    ELSE <<es[1] % 256, (es[1] \div 256) + 16 * (es[2] % 16), es[2] \div 16>>
         \o Pack(SubSeq(es, 3, Len(es)))

\* A mounted image with NumDataBlocks data blocks (numbered from 2), a
\* 1-sector FAT and a root directory of 16 entries; block 4 is data block 2.
ChainBoot ==
    [bb_bytes_per_sector |-> 512, bb_sectors_per_block |-> 1,
     bb_reserved_sectors |-> 1, bb_num_fats |-> 2,
     bb_root_dir_entries |-> 16, bb_total_sectors |-> 4 + NumDataBlocks,
     bb_sectors_per_fat |-> 1, bb_total_sectors_big |-> 0]

\* FAT entries of the data blocks: free, any data block, end-of-file.
FatValues == {FAT12_FREE} \cup (2 .. NumDataBlocks + 1)
             \cup {FAT12_EOF1, FAT12_EOFF}

\* The FAT buffers: entries 0 and 1 hold the media byte and a filler.
FatImages ==
    {Pack(<<4080, 4095>> \o t) : t \in [1 .. NumDataBlocks -> FatValues]}

\* File lengths: empty, and around each multiple of the block size.
FileLens ==
    {0, 1} \cup {k * FS_BLKSIZE : k \in 1 .. NumDataBlocks}
           \cup {k * FS_BLKSIZE + 1 : k \in 1 .. NumDataBlocks}

\* The directory of the walks: one file A.TXT, empty and starting at block
\* 0, or of one of the lengths above and starting at a data block.
FileEntries ==
    {[de_name |-> Pad8(<<65>>), de_nameext |-> <<84, 88, 84>>,
      de_attributes |-> 32, de_fileblock0 |-> b, de_filelen |-> n] :
        b \in 2 .. NumDataBlocks + 1, n \in FileLens}
    \cup {[de_name |-> Pad8(<<65>>), de_nameext |-> <<84, 88, 84>>,
           de_attributes |-> 32, de_fileblock0 |-> 0, de_filelen |-> 0]}

InitChain ==
    /\ pc = "mounted"
    /\ bootblock = ChainBoot
    /\ fs = fat12fsLoadBootBlock(ChainBoot, {}).fs
    /\ fs_fatdata \in FatImages
    /\ fs_rootdirentry \in {<<e>> : e \in FileEntries}
    /\ heap = {"fs", "fs_fatdata", "fs_rootdirentry"}
    /\ openFds = 1
    /\ mounts = 1
    /\ arg = NoArg
    /\ ret = 0
    /\ loc = NoLoc

\* fat12fsVerifyEOF(fs, dirEntryIndex): the entry to the function.
VerifyEOF_Enter ==
    /\ pc = "mounted"
    /\ \E idx \in {0} :
          /\ arg' = [NoArg EXCEPT !.op = "verify", !.index = idx]
          /\ loc' = [NoLoc EXCEPT
                       !.entry = idx,
                       !.curblock = DirEntry(idx).de_fileblock0,
                       !.bytesRemainInFile = DirEntry(idx).de_filelen]
    /\ pc' = "verify_loop"
    /\ UNCHANGED <<bootblock, fs, fs_fatdata, fs_rootdirentry, heap, openFds,
                   mounts, ret>>

\* One iteration of the while loop of fat12fsVerifyEOF.
VerifyEOF_Iter ==
    /\ pc = "verify_loop"
    /\ loc.bytesRemainInFile > 0
    /\ LET remain == Decrement(loc.bytesRemainInFile)
           base   == [loc EXCEPT !.bytesRemainInFile = remain,
                                 !.iters = @ + 1]
           looked == [base EXCEPT !.lookups = @ \cup {loc.curblock}]
       IN  IF remain > 0
             THEN IF IsEOF(loc.curblock)
                    THEN /\ loc' = base
                         /\ ret' = 0
                         /\ pc' = "verify_done"
                    ELSE \/ \E v \in LookupValues(loc.curblock) :
                               /\ loc' = [looked EXCEPT !.curblock = v]
                               /\ UNCHANGED <<pc, ret>>
                         \/ /\ ~InFatBuffer(loc.curblock)
                            /\ loc' = looked
                            /\ pc' = "aborted"
                            /\ UNCHANGED ret
             ELSE /\ loc' = base
                  /\ UNCHANGED <<pc, ret>>
    /\ UNCHANGED <<bootblock, fs, fs_fatdata, fs_rootdirentry, heap, openFds,
                   mounts, arg>>

\* The end of fat12fsVerifyEOF: the loop is over, the FAT entry of curblock
\* decides between 1 and -1.
VerifyEOF_Exit ==
    /\ pc = "verify_loop"
    /\ loc.bytesRemainInFile <= 0
    /\ LET looked == [loc EXCEPT !.lookups = @ \cup {loc.curblock}]
       IN  \/ \E v \in LookupValues(loc.curblock) :
                 /\ loc' = [looked EXCEPT !.curblock = v]
                 /\ ret' = IF MaskIsEOF(v) THEN 1 ELSE -1
                 /\ pc' = "verify_done"
           \/ /\ ~InFatBuffer(loc.curblock)
              /\ loc' = looked
              /\ pc' = "aborted"
              /\ UNCHANGED ret
    /\ UNCHANGED <<bootblock, fs, fs_fatdata, fs_rootdirentry, heap, openFds,
                   mounts, arg>>

\* The arguments handed to fat12fsReadData: a.t at the offsets 0, 1 and
\* blockSize for 0, blockSize + 1 and fileLength bytes, and the absent B.t.
ReadCalls ==
    {<<f, sp, n>> : f \in {<<97, 46, 116>>}, sp \in {0, 1, FS_BLKSIZE},
                    n \in {0, FS_BLKSIZE + 1, DirEntry(0).de_filelen}}
    \cup {<<(<<66, 46, 116>>), 0, DirEntry(0).de_filelen>>}

\* fat12fsReadData(fs, buffer, filename, startpos, nBytesToCopy): the entry
\* to the function, with its search of the root directory.
ReadData_Enter ==
    /\ pc = "mounted"
    /\ \E call \in ReadCalls :
         \E out \in fat12fsSearchRootdir(call[1]) :
            /\ arg' = [NoArg EXCEPT !.op = "read", !.filename = call[1],
                                    !.startpos = call[2],
                                    !.nBytesToCopy = call[3]]
            /\ IF out.aborted
                 THEN /\ pc' = "aborted"
                      /\ loc' = NoLoc
                      /\ UNCHANGED ret
               ELSE IF out.index = -1
                 THEN /\ pc' = "read_done"
                      /\ loc' = NoLoc
                      /\ ret' = -1
               ELSE /\ pc' = "read_loop"
                    /\ loc' = [NoLoc EXCEPT
                         !.entry = out.index,
                         !.curblock = DirEntry(out.index).de_fileblock0,
                         !.bytesRemainInFile = DirEntry(out.index).de_filelen,
                         !.startpos = call[2]]
                    /\ UNCHANGED ret
    /\ UNCHANGED <<bootblock, fs, fs_fatdata, fs_rootdirentry, heap, openFds,
                   mounts>>

\* One iteration of the while loop of fat12fsReadData.
ReadData_Iter ==
    /\ pc = "read_loop"
    /\ loc.bytesRemainInFile > 0
    /\ LET bytesThisBlock == IF loc.bytesRemainInFile < FS_BLKSIZE
                               THEN loc.bytesRemainInFile ELSE FS_BLKSIZE
           reading  == IF loc.startpos - FS_BLKSIZE < 0 THEN 1
                                                         ELSE loc.reading
           fileSize == DirEntry(loc.entry).de_filelen
           copies   == /\ reading = 1
                       /\ loc.bytesRead < arg.nBytesToCopy
                       /\ loc.bytesRead < fileSize - arg.startpos
           cnt      == CopyLoop(bytesThisBlock, loc.bytesRead,
                                arg.nBytesToCopy)
           bytesRead == IF copies THEN loc.bytesRead + cnt ELSE loc.bytesRead
           remain   == Decrement(loc.bytesRemainInFile)
           base     == [loc EXCEPT
                          !.reading = reading,
                          !.bytesRead = bytesRead,
                          !.buffer = IF copies
                                       THEN Append(@, <<loc.curblock, cnt>>)
                                       ELSE @,
                          !.loaded = IF copies THEN Append(@, loc.curblock)
                                               ELSE @,
                          !.bytesRemainInFile = remain,
                          !.startpos = @ - FS_BLKSIZE,
                          !.iters = @ + 1]
           looked   == [base EXCEPT !.lookups = @ \cup {loc.curblock}]
       IN  IF remain > 0
             THEN IF IsEOF(loc.curblock)
                    THEN /\ loc' = base
                         /\ ret' = bytesRead
                         /\ pc' = "read_done"
                    ELSE \/ \E v \in LookupValues(loc.curblock) :
                               /\ loc' = [looked EXCEPT !.curblock = v]
                               /\ UNCHANGED <<pc, ret>>
                         \/ /\ ~InFatBuffer(loc.curblock)
                            /\ loc' = looked
                            /\ pc' = "aborted"
                            /\ UNCHANGED ret
             ELSE /\ loc' = base
                  /\ UNCHANGED <<pc, ret>>
    /\ UNCHANGED <<bootblock, fs, fs_fatdata, fs_rootdirentry, heap, openFds,
                   mounts, arg>>

\* The end of fat12fsReadData: return bytesRead.
ReadData_Exit ==
    /\ pc = "read_loop"
    /\ loc.bytesRemainInFile <= 0
    /\ ret' = loc.bytesRead
    /\ pc' = "read_done"
    /\ UNCHANGED <<bootblock, fs, fs_fatdata, fs_rootdirentry, heap, openFds,
                   mounts, arg, loc>>

NextChain ==
    \/ VerifyEOF_Enter
    \/ VerifyEOF_Iter
    \/ VerifyEOF_Exit
    \/ ReadData_Enter
    \/ ReadData_Iter
    \/ ReadData_Exit

SpecChain == InitChain /\ [][NextChain]_vars

\* The walks run to their end: the process is never suspended.
FairSpecChain == SpecChain /\ WF_vars(NextChain)

(***************************************************************************)
(* The chain walks: the properties.                                        *)
(***************************************************************************)

\* The blocks a file of len bytes needs.
BlocksNeeded(len) == (len + 512 - 1) \div 512

RECURSIVE ChainLen(_, _)
\* The number of blocks of the chain from block b up to the block whose
\* FAT entry is an end-of-file marker; -1 when the chain leaves the table
\* or reaches no marker within fuel blocks.
ChainLen(b, fuel) ==
    IF fuel = 0 \/ b \notin 0 .. fs.fs_fatsize - 1 THEN -1
    ELSE LET nx == fat12fsGetFatEntry(b)
         IN  IF nx \in 4088 .. 4095 THEN 1
             ELSE LET r == ChainLen(nx, fuel - 1)
                  IN  IF r < 0 THEN -1 ELSE r + 1

RECURSIVE NthBlock(_, _)
\* The j-th block of the chain from block b (j from 1).
NthBlock(b, j) == IF j <= 1 THEN b ELSE NthBlock(fat12fsGetFatEntry(b), j - 1)

RECURSIVE ByteAt(_, _)
\* Byte k (from 0) of an output buffer given by its segments.
ByteAt(segs, k) ==
    IF k < segs[1][2] THEN <<segs[1][1], k>>
    ELSE ByteAt(Tail(segs), k - segs[1][2])

\* The directory entry of the file the finished read resolved.
ReadEntry == DirEntry(loc.entry)

\* C2: for a file whose chain has exactly ceil(fileLength/blockSize) blocks
\* and ends in an end-of-file marker, readRange with 0 <= startOffset <
\* fileLength and length >= 0 returns exactly min(length, fileLength -
\* startOffset) bytes, and byte k of the result is byte startOffset + k of
\* the file, also for a startOffset that is no multiple of blockSize.
C2_ReadRangeExactBytes ==
    LET len == ReadEntry.de_filelen
        b0  == ReadEntry.de_fileblock0
        s   == arg.startpos
    IN  (/\ pc = "read_done" /\ arg.op = "read" /\ ret >= 0
         /\ ChainLen(b0, fs.fs_fatsize) = BlocksNeeded(len)
         /\ 0 <= s /\ s < len /\ arg.nBytesToCopy >= 0)
        => /\ ret = Min(arg.nBytesToCopy, len - s)
           /\ \A k \in 0 .. ret - 1 :
                 ByteAt(loc.buffer, k)
                   = <<NthBlock(b0, ((s + k) \div 512) + 1), (s + k) % 512>>

\* C3: for a file whose chain reaches an end-of-file marker after k blocks,
\* k < ceil(fileLength/blockSize), readRange(entry, 0, fileLength) returns
\* fewer than fileLength bytes, at most k*blockSize, all copied from the k
\* blocks of the chain, and loads no block whose number is an end-of-file
\* value.
C3_ShortChainPartialRead ==
    LET len == ReadEntry.de_filelen
        b0  == ReadEntry.de_fileblock0
        k   == ChainLen(b0, fs.fs_fatsize)
    IN  (/\ pc = "read_done" /\ arg.op = "read" /\ ret >= 0
         /\ arg.startpos = 0 /\ arg.nBytesToCopy = len
         /\ k >= 1 /\ k < BlocksNeeded(len))
        => /\ ret < len
           /\ ret <= k * 512
           /\ \A i \in 1 .. Len(loc.loaded) :
                 /\ loc.loaded[i] \in {NthBlock(b0, j) : j \in 1 .. k}
                 /\ loc.loaded[i] \notin 4088 .. 4095

\* C4: verifyIntegrity on a FILE entry returns Ok (1) exactly when the chain
\* from startBlock has ceil(fileLength/blockSize) blocks, the FAT entry of
\* the last one being the first end-of-file marker, and returns Corrupt (0)
\* whenever a block before the last has an end-of-file marker as its FAT
\* entry, also when the chain is just one block short.
C4_VerifyOkIffExactChain ==
    LET e   == DirEntry(arg.index)
        len == e.de_filelen
        k   == ChainLen(e.de_fileblock0, fs.fs_fatsize)
    IN  (/\ pc = "verify_done" /\ arg.op = "verify"
         /\ Classify(e) = "FILE" /\ len >= 1)
        => /\ (ret = 1) <=> (k = BlocksNeeded(len))
           /\ (k >= 1 /\ k < BlocksNeeded(len)) => ret = 0

\* C9: in every step of verifyIntegrity and readRange the index handed to
\* the FAT lookup is within [0, fatEntryCount): never an end-of-file value,
\* nor a block number at or above fatEntryCount.
C9_LookupsInRange ==
    \A i \in loc.lookups : i >= 0 /\ i < fs.fs_fatsize

\* A walk is running; a walk has ended.
InWalk == pc \in {"verify_loop", "read_loop"}

WalkEnded == pc \in {"verify_done", "read_done", "aborted"}

\* C10: the chain walk of verifyIntegrity and of readRange terminates for
\* every FAT content, cyclic chains included: every iteration lowers
\* remaining by blockSize, the loop runs at most fileLength / blockSize + 1
\* iterations, and every walk that started ends.
C10_WalkTerminates ==
    /\ [][(InWalk /\ loc'.iters # loc.iters)
            => /\ loc'.iters = loc.iters + 1
               /\ loc'.bytesRemainInFile = loc.bytesRemainInFile - 512]_vars
    /\ [](arg.op \in {"verify", "read"}
            => loc.iters <= (DirEntry(loc.entry).de_filelen \div 512) + 1)
    /\ (InWalk ~> WalkEnded)

\* C10 witness: a verify walk over the cyclic chain 2 -> 3 -> 2 of a file
\* of three blocks has ended after three iterations.
C10_Witness ==
    /\ pc = "verify_done"
    /\ DirEntry(0).de_fileblock0 = 2
    /\ fat12fsGetFatEntry(2) = 3
    /\ fat12fsGetFatEntry(3) = 2
    /\ loc.iters = 3

=============================================================================
